---- MODULE Spec2Model ----
(***************************************************************************)
(* A model of src/src/tge/train.py: the training epoch (optimize_epoch),   *)
(* next-event-time prediction (ConditionalDensityFunction.predict), the    *)
(* Monte-Carlo integral of the attention intensity, the log-likelihood     *)
(* the evaluation loop, and the epochs of train_model.                     *)
(*                                                                         *)
(* Numbers: a time is an integer count of hundredths (1e-2 is 1), a        *)
(* density an integer count of thousandths (1e-3 is 1).  Sums, means,      *)
(* integrals, weights and the predicted time are kept exact, as numerators *)
(* over a stated denominator.  The horizon t_end alone is rounded down to  *)
(* the grid of hundredths where the code divides (lines 70, 78, 80), as a  *)
(* float is rounded to its own grid.                                       *)
(***************************************************************************)
EXTENDS Integers, Sequences, FiniteSets, TLC

\* ------------------------------------------------------------------------
\* Helpers
\* ------------------------------------------------------------------------

\* the sum of s[lo..hi], by halves
RECURSIVE RangeSum(_, _, _)
RangeSum(s, lo, hi) ==
    IF lo > hi THEN 0
    ELSE IF lo = hi THEN s[lo]
    ELSE LET mid == (lo + hi) \div 2
         IN  RangeSum(s, lo, mid) + RangeSum(s, mid + 1, hi)

SeqSum(s) == RangeSum(s, 1, Len(s))

\* ------------------------------------------------------------------------
\* Bounds and program constants
\* ------------------------------------------------------------------------

\* the largest number of batches train_loader yields
MaxTrainBatches == 12
\* the largest number of batches of one epoch whose computation fails
MaxFailures == 2
\* `batch_counter % 8 == 0`: the accumulation period
AccumSteps == 8
\* `if args.debug and i == 10: break`
DebugTrainBreak == 10
\* the largest number of timestamps of a batch
MaxLen == 5
\* `N=10`, the default number of points per boundary
DefaultN == 10
\* `test_value < 1e-3`, in thousandths
BandLow == 1
\* `test_value > 0.1`, in thousandths
BandHigh == 100
\* `t_end > T[-1]+1e-2`, in hundredths
ShrinkMargin == 1
\* `if counter > 20: break`
MaxIter == 20
\* `size = 15`
size == 15
\* the 1e-6 of `values.sum() + 1e-6`, in the unit of the scaled values, which
\* is 1/3,000,000 (hundredths / 15 * thousandths / 2)
SumEps == 3
\* the largest number of batches test_loader yields
MaxTestBatches == 102
\* `if args.debug and i == 100: break`
DebugEvalBreak == 100
\* the largest timestamp given to a stand-alone integral, in hundredths
MaxTime == 3
\* the largest number of boundaries in t_end
MaxBoundaries == 2
\* the largest number N of points per boundary
MaxN == 3
\* the largest args.epochs
MaxEpochs == 2
\* the most batches that fail over the epochs of one training run
MaxRunFailures == 1

\* ------------------------------------------------------------------------
\* State
\* ------------------------------------------------------------------------

VARIABLES
    \* optimize_epoch
    tr_pc,          \* "loop" | "return" | "done" | "raised" | "finished"
    num_batches,    \* len(train_loader)
    tr_debug,       \* args.debug
    i,              \* the loop index of `for i, batch in enumerate(train_loader)`
    batch_counter,  \* the accumulation counter
    recorder,       \* the list of recorded losses
    grad,           \* the batches whose gradient is accumulated in the parameters' .grad
    updates,        \* one entry per optimizer.step(): the batches whose gradient it applied
    tr_result,      \* the returned np.mean(recorder), as [sum, n] (n = 0: nan)
    \* train_model
    epochs,         \* args.epochs
    epoch,          \* the loop index of `for i in range(args.epochs)`
    \* history, read by the properties only
    failed,         \* the batches skipped, each with the place the failure was raised
    carried,        \* the gradient already accumulated when optimize_epoch was called
    epoch_updates,  \* how many optimizer.step() calls the current call has made
    counted,        \* the batches that advanced batch_counter
    contributed,    \* the batches whose backward pass accumulated a gradient
    last_counter,   \* batch_counter after each handled batch, in order
    since_update,   \* the batches that advanced the counter since the last update
    \* one use of AttenIntensity.integral
    in_pc,          \* "call" | "single" | "done" | "assert_failed"
    in_m,           \* the intensity
    in_T,           \* the history T
    in_t_start,     \* t_start
    in_t_end,       \* t_end, a batch of boundaries
    in_N,           \* N
    in_batch,       \* the value returned for the batch of boundaries (numerators over N)
    in_single,      \* the running sum of the calls made boundary by boundary
    \* batch_evaluate of one batch: criterion, predict, the metrics
    b_pc,           \* "criterion" | "predict" | "while" | "sample" | "metrics" | "done"
                    \* | "assert_failed"
    T_all,          \* batch.T
    lambdaf,        \* the intensity
    dens,           \* the density f that ConditionalDensityFunction.__call__ computes
    ll_i,           \* log_likelihood: the loop index i
    ll1,            \* log_likelihood: the arguments of the log terms summed in ll1
    integral,       \* log_likelihood: the sum of the integral terms (numerator over DefaultN)
    loss,           \* criterion's result, -1 * (ll1 - integral)
    t_end,          \* predict: the horizon
    counter,        \* predict: the iteration counter
    test_value,     \* predict: the density at t_end, in thousandths
    moves,          \* predict: how many times the loop changed t_end (for the properties)
    t_samples,      \* predict: the candidate times, in fifteenths of a hundredth
    values,         \* predict: the weights, as numerators over values_den
    values_den,     \* predict: values.sum() + 1e-6, the weights' denominator
    estimated_expectation,  \* predict's result
    b_result,       \* batch_evaluate's result
    \* evaluate, run on one test_loader without and then with `parallel`
    e_pc,           \* "seq_loop" | "seq_return" | "pool_call" | "pool_return" | "done"
    e_n,            \* len(test_loader)
    e_debug,        \* args.debug
    e_fail,         \* the test batches on which batch_evaluate raises
    e_i,            \* the loop index i of the sequential mode
    loss_recorder,
    se_recorder,
    abs_ratio_recorder,
    seq_out,        \* the sequential call's outcome: [status, result]
    pool_table,     \* `result`, the list run_queue returned
    pool_out        \* the pooled call's outcome: [status, result]

trainVars == << tr_pc, num_batches, tr_debug, i, batch_counter, recorder, grad,
                updates, tr_result, epochs, epoch, failed, carried, epoch_updates,
                counted, contributed, last_counter, since_update >>

intVars == << in_pc, in_m, in_T, in_t_start, in_t_end, in_N, in_batch, in_single >>

batchVars == << b_pc, T_all, lambdaf, dens, ll_i, ll1, integral, loss, t_end, counter,
                test_value, moves, t_samples, values, values_den,
                estimated_expectation, b_result >>

evalVars == << e_pc, e_n, e_debug, e_fail, e_i, loss_recorder, se_recorder,
               abs_ratio_recorder, seq_out, pool_table, pool_out >>

vars == << trainVars, intVars, batchVars, evalVars >>

\* a mean np.mean forms, kept as the sum and the number of values (n = 0: nan)
NoMean == [sum |-> 0, n |-> 0]

NoAggregate == [loss |-> NoMean, rmse |-> NoMean, abs_ratio |-> NoMean]

\* evaluate is not running
EvalIdle ==
    /\ e_pc = "idle"
    /\ e_n = 0
    /\ e_debug = FALSE
    /\ e_fail = {}
    /\ e_i = 0
    /\ loss_recorder = << >>
    /\ se_recorder = << >>
    /\ abs_ratio_recorder = << >>
    /\ seq_out = [status |-> "none", result |-> NoAggregate]
    /\ pool_table = << >>
    /\ pool_out = [status |-> "none", result |-> NoAggregate]

\* optimize_epoch is not running
TrainIdle ==
    /\ tr_pc = "idle"
    /\ num_batches = 0
    /\ tr_debug = FALSE
    /\ i = 0
    /\ batch_counter = 0
    /\ recorder = << >>
    /\ grad = {}
    /\ updates = << >>
    /\ tr_result = [sum |-> 0, n |-> 0]
    /\ epochs = 1
    /\ epoch = 0
    /\ failed = {}
    /\ carried = {}
    /\ epoch_updates = 0
    /\ counted = {}
    /\ contributed = {}
    /\ last_counter = << >>
    /\ since_update = 0

\* no batch is being evaluated
BatchIdle ==
    /\ b_pc = "idle"
    /\ T_all = << >>
    /\ lambdaf = [c |-> 0, h |-> 0, s |-> 0, g |-> 0, cut |-> 0]
    /\ dens = [a |-> 0, b |-> 0, cut |-> 0]
    /\ ll_i = 0
    /\ ll1 = << >>
    /\ integral = 0
    /\ loss = [logs |-> << >>, integral |-> 0]
    /\ t_end = 0
    /\ counter = 0
    /\ test_value = 0
    /\ moves = 0
    /\ t_samples = << >>
    /\ values = << >>
    /\ values_den = 0
    /\ estimated_expectation = [base |-> 0, off |-> 0, den |-> 0]
    /\ b_result = [loss |-> [logs |-> << >>, integral |-> 0],
                   pred |-> [base |-> 0, off |-> 0, den |-> 0], target |-> 0,
                   interval_sum |-> 0, interval_n |-> 0]

\* no stand-alone use of the integral
IntIdle ==
    /\ in_pc = "idle"
    /\ in_m = [c |-> 0, h |-> 0, s |-> 0, g |-> 0, cut |-> 0]
    /\ in_T = << >>
    /\ in_t_start = 0
    /\ in_t_end = << >>
    /\ in_N = 0
    /\ in_batch = << >>
    /\ in_single = << >>

\* ------------------------------------------------------------------------
\* optimize_epoch
\* ------------------------------------------------------------------------

\* criterion(model, batch): the loss of batch b (a fixture: distinct per batch)
Loss(b) == 10 + b

\* The places of one iteration's try block where an exception can be raised.
FailPoints == {"criterion", "backward", "step"}

\* What can happen to one batch: it succeeds, an out-of-memory failure is
\* raised at one of the places, or another exception is raised.
Outcomes == {[kind |-> "ok", at |-> "none"]}
            \cup [kind : {"oom", "other"}, at : FailPoints]

\* batch_counter after the try block of one iteration (lines 261-281)
CounterAfter(o, bc) ==
    IF o.at = "criterion" THEN bc                       \* raised before `batch_counter += 1`
    ELSE IF o.kind = "ok" /\ (bc + 1) % AccumSteps = 0 THEN 0
    ELSE bc + 1

\* whether loss.backward() of this iteration ran to its end
BackwardDone(o) == o.kind = "ok" \/ o.at = "step"

\* whether optimizer.step() and optimizer.zero_grad() ran
Stepped(o, bc) == o.kind = "ok" /\ (bc + 1) % AccumSteps = 0

\* batch k of the train_loader as handled in epoch e
Batch(e, k) == [epoch |-> e, batch |-> k]

TrainInit ==
    /\ IntIdle
    /\ BatchIdle
    /\ EvalIdle
    /\ tr_pc = "loop"
    /\ num_batches \in 1..MaxTrainBatches
    /\ tr_debug \in BOOLEAN
    /\ i = 0
    /\ batch_counter = 0
    /\ recorder = << >>
    /\ grad = {}
    /\ updates = << >>
    /\ tr_result = [sum |-> 0, n |-> 0]
    /\ epochs = 1
    /\ epoch = 0
    /\ failed = {}
    /\ carried = {}
    /\ epoch_updates = 0
    /\ counted = {}
    /\ contributed = {}
    /\ last_counter = << >>
    /\ since_update = 0

\* One iteration of the loop: lines 254-284.
TrainBatch ==
    /\ tr_pc = "loop"
    /\ i < num_batches
    /\ \E o \in Outcomes :
        \* optimizer.step() is reached only on an update iteration
        /\ o.at = "step" => (batch_counter + 1) % AccumSteps = 0
        /\ o.kind # "ok" => Cardinality(failed) < MaxFailures
        /\ batch_counter' = CounterAfter(o, batch_counter)
        /\ grad' = IF Stepped(o, batch_counter) THEN {}
                   ELSE IF BackwardDone(o) THEN grad \cup {Batch(epoch, i)}
                   ELSE grad
        /\ updates' = IF Stepped(o, batch_counter)
                      THEN Append(updates, grad \cup {Batch(epoch, i)}) ELSE updates
        /\ epoch_updates' = IF Stepped(o, batch_counter)
                            THEN epoch_updates + 1 ELSE epoch_updates
        /\ recorder' = IF o.kind = "ok" THEN Append(recorder, Loss(i)) ELSE recorder
        /\ failed' = IF o.kind = "ok" THEN failed
                     ELSE failed \cup {[epoch |-> epoch, batch |-> i,
                                         kind |-> o.kind, at |-> o.at]}
        /\ counted' = IF o.at = "criterion" THEN counted ELSE counted \cup {i}
        /\ contributed' = IF BackwardDone(o) THEN contributed \cup {i} ELSE contributed
        /\ last_counter' = Append(last_counter, batch_counter')
        /\ since_update' = IF Stepped(o, batch_counter) THEN 0
                           ELSE IF o.at = "criterion" THEN since_update
                           ELSE since_update + 1
        /\ tr_pc' = IF o.kind = "other" THEN "raised"            \* `raise`
                    ELSE IF tr_debug /\ i = DebugTrainBreak THEN "return"   \* `break`
                    ELSE "loop"
        /\ i' = IF o.kind = "other" \/ (tr_debug /\ i = DebugTrainBreak) THEN i ELSE i + 1
    /\ UNCHANGED << num_batches, tr_debug, tr_result, epochs, epoch, carried,
                    intVars, batchVars, evalVars >>

\* The loader is exhausted.
TrainExhausted ==
    /\ tr_pc = "loop"
    /\ i = num_batches
    /\ tr_pc' = "return"
    /\ UNCHANGED << num_batches, tr_debug, i, batch_counter, recorder, grad, updates,
                    tr_result, epochs, epoch, failed, carried, epoch_updates,
                    counted, contributed, last_counter, since_update,
                    intVars, batchVars, evalVars >>

\* `return np.mean(recorder)`
TrainReturn ==
    /\ tr_pc = "return"
    /\ tr_result' = [sum |-> SeqSum(recorder), n |-> Len(recorder)]
    /\ tr_pc' = "done"
    /\ UNCHANGED << num_batches, tr_debug, i, batch_counter, recorder, grad, updates,
                    epochs, epoch, failed, carried, epoch_updates,
                    counted, contributed, last_counter, since_update,
                    intVars, batchVars, evalVars >>

TrainNext == TrainBatch \/ TrainExhausted \/ TrainReturn

SpecTrain == TrainInit /\ [][TrainNext]_vars

\* ------------------------------------------------------------------------
\* train_model: optimize_epoch called once per epoch on the same model and
\* the same optimizer
\* ------------------------------------------------------------------------

\* a faulty variant, for comparison: the call starts from cleared gradients
GradAtCallCleared(g) == {}
\* The parameters' .grad when optimize_epoch reaches its loop: lines 248-252
\* hold no optimizer.zero_grad(), so it is what the caller left.
GradAtCall(g) == g

EpochsInit ==
    /\ IntIdle
    /\ BatchIdle
    /\ EvalIdle
    /\ tr_pc = "loop"
    /\ num_batches \in 1..MaxTrainBatches
    /\ tr_debug \in BOOLEAN
    /\ i = 0
    /\ batch_counter = 0
    /\ recorder = << >>
    /\ grad = {}
    /\ updates = << >>
    /\ tr_result = [sum |-> 0, n |-> 0]
    /\ epochs \in 1..MaxEpochs
    /\ epoch = 0
    /\ failed = {}
    /\ carried = {}
    /\ epoch_updates = 0
    /\ counted = {}
    /\ contributed = {}
    /\ last_counter = << >>
    /\ since_update = 0

\* One iteration of optimize_epoch's loop, within a training run
EpochBatch == TrainBatch /\ Cardinality(failed') <= MaxRunFailures

\* The rest of one iteration of train_model's loop after optimize_epoch has
\* returned (lines 391-396: the checkpoint, evaluate, the metrics), and the
\* call of optimize_epoch of the next iteration up to its loop (lines
\* 248-252).  Neither evaluate (no backward pass) nor the bookkeeping touches
\* the parameters' .grad or the optimizer; evaluate can raise, which ends
\* train_model.
NextEpoch ==
    /\ tr_pc = "done"
    /\ epoch + 1 < epochs
    /\ \E evaluate_raises \in BOOLEAN :
        IF evaluate_raises
        THEN /\ tr_pc' = "raised"
             /\ UNCHANGED << epoch, i, batch_counter, recorder, carried, epoch_updates,
                             counted, contributed, last_counter, since_update >>
        ELSE /\ tr_pc' = "loop"
             /\ epoch' = epoch + 1
             /\ i' = 0
             /\ batch_counter' = 0            \* line 251
             /\ recorder' = << >>             \* line 252
             /\ carried' = grad
             /\ epoch_updates' = 0
             /\ counted' = {}
             /\ contributed' = {}
             /\ last_counter' = << >>
             /\ since_update' = 0
    /\ grad' = IF tr_pc' = "loop" THEN GradAtCall(grad) ELSE grad
    /\ UNCHANGED << num_batches, tr_debug, updates, tr_result, epochs, failed,
                    intVars, batchVars, evalVars >>

\* The last iteration of train_model's loop ends and train_model returns.
TrainModelReturn ==
    /\ tr_pc = "done"
    /\ epoch + 1 = epochs
    /\ \E evaluate_raises \in BOOLEAN :
        tr_pc' = IF evaluate_raises THEN "raised" ELSE "finished"
    /\ UNCHANGED << num_batches, tr_debug, i, batch_counter, recorder, grad, updates,
                    tr_result, epochs, epoch, failed, carried, epoch_updates,
                    counted, contributed, last_counter, since_update,
                    intVars, batchVars, evalVars >>

EpochsNext == EpochBatch \/ TrainExhausted \/ TrainReturn \/ NextEpoch \/ TrainModelReturn

SpecEpochs == EpochsInit /\ [][EpochsNext]_vars

\* ------------------------------------------------------------------------
\* The intensity (AttenIntensity) and its Monte-Carlo integral
\* ------------------------------------------------------------------------

\* Times: integers count hundredths (1e-2 is 1).  A query point is kept exact
\* as num/den hundredths, plus, when eps holds, a positive part of the 1e-6
\* that line 176 adds to t_start (smaller than any difference of the grid).
Pt(t) == [num |-> t, den |-> 1, eps |-> FALSE]

\* p < q for two points of the same denominator
PtLess(p, q) == \/ p.num < q.num
                \/ p.num = q.num /\ ~p.eps /\ q.eps

Last(H) == H[Len(H)]

RECURSIVE SeqMax(_)
SeqMax(s) == IF Len(s) = 1 THEN s[1]
             ELSE LET m == SeqMax(Tail(s)) IN IF s[1] > m THEN s[1] ELSE m

RECURSIVE SeqMin(_)
SeqMin(s) == IF Len(s) = 1 THEN s[1]
             ELSE LET m == SeqMin(Tail(s)) IN IF s[1] < m THEN s[1] ELSE m

\* t.min() of a batch of points of one denominator
PtMin(ps) == CHOOSE p \in {ps[k] : k \in 1..Len(ps)} :
                 \A k \in 1..Len(ps) : ~PtLess(ps[k], p)

\* whether point p lies more than cut after the last timestamp of history H
After(p, H, cut) ==
    IF \/ p.num > p.den * (Last(H) + cut)
       \/ p.num = p.den * (Last(H) + cut) /\ p.eps
    THEN 1 ELSE 0

\* The intensities the model can stand for.  AttenIntensity.__call__ is a
\* function of the history T (attention keys), of each query time t
\* (attention query) and of t.min() of the whole query batch (the graph
\* context, line 155); the learned maps themselves are outside this file.
\* c: base value; h: weight of the history's length; s: weight of the query
\* time; g: weight of the context at t.min().
Intensities ==
    { [c |-> 1, h |-> 0, s |-> 0, g |-> 0, cut |-> 0],
      [c |-> 2, h |-> 0, s |-> 0, g |-> 0, cut |-> 0],
      [c |-> 1, h |-> 1, s |-> 0, g |-> 0, cut |-> 0],
      [c |-> 1, h |-> 0, s |-> 2, g |-> 0, cut |-> 1],
      [c |-> 1, h |-> 1, s |-> 1, g |-> 3, cut |-> 1] }

IsConstant(m) == m.h = 0 /\ m.s = 0 /\ m.g = 0

\* AttenIntensity.__call__(u, v, T, t) for the batch of query points ps:
\* one value per point (lines 137-162)
Lambda(m, H, ps) ==
    LET tmin == PtMin(ps) IN
    [k \in 1..Len(ps) |->
        m.c + m.h * Len(H) + m.s * After(ps[k], H, m.cut) + m.g * After(tmin, H, m.cut)]

\* the start of segment j (line 176): t_start for the first, else t_end[j-1]
SegStart(t_start, t_ends, j) == IF j = 1 THEN t_start ELSE t_ends[j - 1]

\* torch.linspace(a, b, N)[q], q = 0..N-1, with a = SegStart (+1e-6 for j = 1)
LinPoint(t_start, t_ends, N, j, q) ==
    LET a == SegStart(t_start, t_ends, j)
        b == t_ends[j]
    IN  IF N = 1 THEN [num |-> a, den |-> 1, eps |-> (j = 1)]
        ELSE [num |-> (N - 1) * a + q * (b - a), den |-> N - 1,
              eps |-> (j = 1 /\ q < N - 1)]

\* `points = torch.cat(points)`: N points per boundary (lines 176-177)
Points(t_start, t_ends, N) ==
    [k \in 1..(Len(t_ends) * N) |->
        LinPoint(t_start, t_ends, N, ((k - 1) \div N) + 1, (k - 1) % N)]

\* `intervals` of lines 180-182, times N: the width of the segment of point k
IntervalsN(t_start, t_ends, N) ==
    [k \in 1..(Len(t_ends) * N) |->
        LET j == ((k - 1) \div N) + 1 IN t_ends[j] - SegStart(t_start, t_ends, j)]

\* values.cumsum(dim=0) (line 186)
RECURSIVE CumSum(_)
CumSum(s) ==
    IF Len(s) = 0 THEN << >>
    ELSE LET front == CumSum(SubSeq(s, 1, Len(s) - 1))
         IN  Append(front, (IF Len(front) = 0 THEN 0 ELSE front[Len(front)]) + s[Len(s)])

\* a faulty variant, for comparison: the index of each segment's first point
IntegralIndexFirst(j, N) == (j - 1) * N + 1
\* `index = torch.arange(1, t_end.numel()+1) * N - 1` (line 187), 1-based here
IntegralIndex(j, N) == j * N

\* the assertions of lines 173-174
IntegralPre(H, t_start, t_ends) == SeqMin(t_ends) >= t_start /\ t_start >= SeqMax(H)

\* AttenIntensity.integral(u, v, T, t_start, t_ends, N): one value per boundary
\* of t_ends, each a numerator over N (value = result[j] / N)   (lines 164-189)
Integral(m, H, t_start, t_ends, N) ==
    LET points == Points(t_start, t_ends, N)
        vals == Lambda(m, H, points)
        intervals == IntervalsN(t_start, t_ends, N)
        prod == [k \in 1..Len(points) |-> vals[k] * intervals[k]]
        cum == CumSum(prod)
    IN  [j \in 1..Len(t_ends) |-> cum[IntegralIndex(j, N)]]

\* ------------------------------------------------------------------------
\* AttenIntensity.integral, called once for a batch of boundaries and then
\* boundary by boundary
\* ------------------------------------------------------------------------

\* the sequences over S of length 1..n
SeqsUpTo(S, n) == UNION {[1..k -> S] : k \in 1..n}

NonDecreasing(s) == \A k \in 1..(Len(s) - 1) : s[k] <= s[k + 1]

Increasing(s) == \A k \in 1..(Len(s) - 1) : s[k] < s[k + 1]

IntInit ==
    /\ TrainIdle
    /\ BatchIdle
    /\ EvalIdle
    /\ in_pc = "call"
    /\ in_m \in Intensities
    /\ in_T \in {<< 0 >>, << 0, 1 >>, << 1, 2 >>}
    /\ in_t_start \in 0..MaxTime
    /\ in_t_end \in SeqsUpTo(0..MaxTime, MaxBoundaries)
    /\ in_N \in 1..MaxN
    /\ in_batch = << >>
    /\ in_single = << >>

\* integral(u, v, T, t_start, t_end, N) with the batch t_end
IntegralBatchCall ==
    /\ in_pc = "call"
    /\ IntegralPre(in_T, in_t_start, in_t_end)
    /\ in_batch' = Integral(in_m, in_T, in_t_start, in_t_end, in_N)
    /\ in_pc' = "single"
    /\ UNCHANGED << in_m, in_T, in_t_start, in_t_end, in_N, in_single, trainVars, batchVars, evalVars >>

\* one of the assertions of lines 173-174 fails
IntegralAssertFails ==
    /\ in_pc = "call"
    /\ ~IntegralPre(in_T, in_t_start, in_t_end)
    /\ in_pc' = "assert_failed"
    /\ UNCHANGED << in_m, in_T, in_t_start, in_t_end, in_N, in_batch, in_single, trainVars, batchVars, evalVars >>

\* the next single call, from the previous boundary to boundary j, added to
\* the sum of the calls before it
IntegralSingleCall ==
    /\ in_pc = "single"
    /\ Len(in_single) < Len(in_t_end)
    /\ LET j == Len(in_single) + 1
           a == SegStart(in_t_start, in_t_end, j)
           before == IF j = 1 THEN 0 ELSE in_single[j - 1]
       IN  IF IntegralPre(in_T, a, << in_t_end[j] >>)
           THEN /\ in_single' = Append(in_single,
                        before + Integral(in_m, in_T, a, << in_t_end[j] >>, in_N)[1])
                /\ in_pc' = "single"
           ELSE /\ in_single' = in_single
                /\ in_pc' = "assert_failed"
    /\ UNCHANGED << in_m, in_T, in_t_start, in_t_end, in_N, in_batch, trainVars, batchVars, evalVars >>

IntegralDone ==
    /\ in_pc = "single"
    /\ Len(in_single) = Len(in_t_end)
    /\ in_pc' = "done"
    /\ UNCHANGED << in_m, in_T, in_t_start, in_t_end, in_N, in_batch, in_single, trainVars, batchVars, evalVars >>

IntNext == IntegralBatchCall \/ IntegralAssertFails \/ IntegralSingleCall \/ IntegralDone

SpecIntegral == IntInit /\ [][IntNext]_vars

\* ------------------------------------------------------------------------
\* batch_evaluate: criterion (log_likelihood), predict, the metrics
\* ------------------------------------------------------------------------

\* the timestamps batches are made of, in hundredths
TimeGrid == {0, 1, 13, 14, 15, 16}

\* the strictly increasing sequences over S of length lo..hi
IncreasingSeqs(S, lo, hi) ==
    {q \in UNION {[1..k -> S] : k \in lo..hi} : Increasing(q)}

\* The densities f(t | T) the density function can stand for: a in thousandths
\* up to cut hundredths after the last timestamp, b beyond.  The levels are
\* below the band [1e-3, 0.1], on its two edges, inside it, and above it.
DensityLevels == {0, BandLow, BandLow + 1, BandHigh, BandHigh + 1}

Densities == [a : DensityLevels, b : DensityLevels, cut : {0, 2, 9}]

\* f at time t (hundredths) and at a candidate time t15 (fifteenths of one)
Density(d, T, t) == IF t - Last(T) <= d.cut THEN d.a ELSE d.b

Density15(d, T, t15) == IF t15 - size * Last(T) <= size * d.cut THEN d.a ELSE d.b

\* T[1:] - T[:-1]
Intervals(T) == [k \in 1..(Len(T) - 1) |-> T[k + 1] - T[k]]

SeqSquares(q) == [k \in 1..Len(q) |-> q[k] * q[k]]

\* T_all[:-1], the observed history
History(Tall) == SubSeq(Tall, 1, Len(Tall) - 1)

\* log_likelihood: the history T[:i+1] of iteration i (0-based, as in the code)
LLHistory(T, k) == SubSeq(T, 1, k + 1)

\* log_likelihood: the query time t of iteration i, T[1:][i]
LLTime(T, k) == T[k + 2]

\* log_likelihood: the integral term of iteration i,
\* lambdaf.integral(u, v, T[:i+1], T[i], T[i+1])
LLIntegral(m, T, k) ==
    Integral(m, LLHistory(T, k), T[k + 1], << T[k + 2] >>, DefaultN)[1]

\* a faulty variant, for comparison: the log term conditioned on the whole of T
LLLambdaWhole(m, T, k) == Lambda(m, T, << Pt(LLTime(T, k)) >>)[1]
\* log_likelihood: the log term's argument of iteration i,
\* lambdaf(u, v, T[:i+1], t)
LLLambda(m, T, k) == Lambda(m, LLHistory(T, k), << Pt(LLTime(T, k)) >>)[1]

\* intervals.mean() + intervals.var() (line 70), rounded down to the grid;
\* var is the unbiased variance, (n*S2 - S1^2) / (n*(n-1)) in squared
\* hundredths, that is 1/100 of it in hundredths
MaxInterval(T) ==
    LET x == Intervals(T)
        n == Len(x)
        S1 == SeqSum(x)
        S2 == SeqSum(SeqSquares(x))
    IN  (100 * (n - 1) * S1 + n * S2 - S1 * S1) \div (100 * n * (n - 1))

\* `(test_value < 1e-3 or test_value > 0.1) and t_end > T[-1]` (line 76)
WhileCond(tv, te, T) == (tv < BandLow \/ tv > BandHigh) /\ te > Last(T)

\* a faulty variant, for comparison: halving t_end itself, not its lead over T[-1]
ShrinkFromZero(T, te) == te \div 2
\* `t_end = (T[-1] + t_end)/2` (line 78)
Shrink(T, te) == (Last(T) + te) \div 2

\* `t_end = t_end + (t_end - T[-1])/2` (line 80)
Expand(T, te) == te + (te - Last(T)) \div 2

\* the body of the loop up to line 80: the adjusted horizon
Adjust(tv, te, T) ==
    IF tv < BandLow /\ te > Last(T) + ShrinkMargin THEN Shrink(T, te)
    ELSE IF tv > BandHigh THEN Expand(T, te)
    ELSE te

\* a faulty variant, for comparison: leaving at the 20th iteration
CapReachedAt20(c) == c >= MaxIter
\* `if counter > 20: break` (line 82)
CapReached(c) == c > MaxIter

\* whether the density can be evaluated at horizon te: the integral it calls
\* (line 60, from T[-1] to te) passes the assertions of lines 173-174
DensityPre(T, te) == IntegralPre(T, Last(T), << te >>)

BatchInit ==
    /\ TrainIdle
    /\ IntIdle
    /\ EvalIdle
    /\ b_pc = "criterion"
    /\ T_all \in IncreasingSeqs(TimeGrid, 2, MaxLen)
    /\ lambdaf \in Intensities
    /\ dens \in Densities
    /\ ll_i = 0
    /\ ll1 = << >>
    /\ integral = 0
    /\ loss = [logs |-> << >>, integral |-> 0]
    /\ t_end = 0
    /\ counter = 0
    /\ test_value = 0
    /\ moves = 0
    /\ t_samples = << >>
    /\ values = << >>
    /\ values_den = 0
    /\ estimated_expectation = [base |-> 0, off |-> 0, den |-> 0]
    /\ b_result = [loss |-> [logs |-> << >>, integral |-> 0],
                   pred |-> [base |-> 0, off |-> 0, den |-> 0], target |-> 0,
                   interval_sum |-> 0, interval_n |-> 0]

\* one iteration of log_likelihood's loop (lines 211-214)
LLStep ==
    /\ b_pc = "criterion"
    /\ ll_i < Len(T_all) - 1
    /\ IF IntegralPre(LLHistory(T_all, ll_i), T_all[ll_i + 1], << T_all[ll_i + 2] >>)
       THEN /\ ll1' = Append(ll1, LLLambda(lambdaf, T_all, ll_i))
            /\ integral' = integral + LLIntegral(lambdaf, T_all, ll_i)
            /\ ll_i' = ll_i + 1
            /\ b_pc' = "criterion"
       ELSE /\ b_pc' = "assert_failed"
            /\ UNCHANGED << ll1, integral, ll_i >>
    /\ UNCHANGED << T_all, lambdaf, dens, loss, t_end, counter, test_value, moves,
                    t_samples, values, values_den, estimated_expectation, b_result,
                    trainVars, intVars, evalVars >>

\* `ll = ll1 - integral` and criterion's `loss = -1 * ll` (lines 215, 235)
CriterionReturn ==
    /\ b_pc = "criterion"
    /\ ll_i = Len(T_all) - 1
    /\ loss' = [logs |-> ll1, integral |-> integral]
    /\ b_pc' = "predict"
    /\ UNCHANGED << T_all, lambdaf, dens, ll_i, ll1, integral, t_end, counter,
                    test_value, moves, t_samples, values, values_den,
                    estimated_expectation, b_result, trainVars, intVars, evalVars >>

\* predict up to the loop (lines 68-75).  With fewer than two intervals
\* intervals.var() (and, with none, intervals.mean()) is nan, so is t_end, and
\* `assert t_end.min() >= t_start` fails in the integral the density calls.
PredictStart ==
    /\ b_pc = "predict"
    /\ LET T == History(T_all)
           te == Last(T) + MaxInterval(T)
       IN  IF Len(T) >= 3 /\ DensityPre(T, te)
           THEN /\ t_end' = te
                /\ test_value' = Density(dens, T, te)
                /\ b_pc' = "while"
           ELSE /\ b_pc' = "assert_failed"
                /\ UNCHANGED << t_end, test_value >>
    /\ counter' = 0
    /\ UNCHANGED << T_all, lambdaf, dens, ll_i, ll1, integral, loss, moves, t_samples,
                    values, values_den, estimated_expectation, b_result,
                    trainVars, intVars, evalVars >>

\* one iteration of the bracketing loop (lines 76-84)
BracketStep ==
    /\ b_pc = "while"
    /\ WhileCond(test_value, t_end, History(T_all))
    /\ LET T == History(T_all)
           te == Adjust(test_value, t_end, T)
       IN  /\ t_end' = te
           /\ moves' = IF te # t_end THEN moves + 1 ELSE moves
           /\ counter' = counter + 1
           /\ IF CapReached(counter + 1)
              THEN /\ b_pc' = "sample"                       \* `break`
                   /\ test_value' = test_value
              ELSE IF DensityPre(T, te)
              THEN /\ b_pc' = "while"
                   /\ test_value' = Density(dens, T, te)
              ELSE /\ b_pc' = "assert_failed"
                   /\ test_value' = test_value
    /\ UNCHANGED << T_all, lambdaf, dens, ll_i, ll1, integral, loss, t_samples, values,
                    values_den, estimated_expectation, b_result, trainVars, intVars, evalVars >>

\* the loop's condition is false
BracketExit ==
    /\ b_pc = "while"
    /\ ~WhileCond(test_value, t_end, History(T_all))
    /\ b_pc' = "sample"
    /\ UNCHANGED << T_all, lambdaf, dens, ll_i, ll1, integral, loss, t_end, counter,
                    test_value, moves, t_samples, values, values_den,
                    estimated_expectation, b_result, trainVars, intVars, evalVars >>

\* `T_interval = torch.abs(t_end - T[-1])` (line 86)
TInterval(T, te) == IF te >= Last(T) THEN te - Last(T) ELSE Last(T) - te

\* `torch.linspace(T[-1]+T_interval/size, T[-1]+T_interval, size)` (line 89):
\* candidate k is T[-1] + k * T_interval / size, here in fifteenths
TSamples(T, te) == [k \in 1..size |-> size * Last(T) + k * TInterval(T, te)]

\* `values = (T_interval/size) * values` (line 99), in units of 1/3,000,000
ScaledValues(d, T, te) ==
    [k \in 1..size |-> 2 * TInterval(T, te) * Density15(d, T, TSamples(T, te)[k])]

\* `values.sum() + 1e-6` (line 101)
Normaliser(d, T, te) == SeqSum(ScaledValues(d, T, te)) + SumEps

\* `(values * t_samples).sum()` (line 104).  Candidate k is T[-1] + k * step
\* with step = T_interval / size, so the sum is
\* (base * T[-1] + off * step) / den with base the sum of the weights'
\* numerators, off the sum of k * numerator, den the weights' denominator.
Expectation(d, T, te) ==
    LET v == ScaledValues(d, T, te)
    IN  [base |-> SeqSum(v),
         off |-> SeqSum([k \in 1..size |-> k * v[k]]),
         den |-> Normaliser(d, T, te)]

\* the rest of predict (lines 86-105)
Sample ==
    /\ b_pc = "sample"
    /\ LET T == History(T_all)
       IN  IF TSamples(T, t_end)[1] >= size * Last(T) /\ Last(T) >= SeqMax(T)
           THEN /\ t_samples' = TSamples(T, t_end)
                /\ values' = ScaledValues(dens, T, t_end)
                /\ values_den' = Normaliser(dens, T, t_end)
                /\ estimated_expectation' = Expectation(dens, T, t_end)
                /\ b_pc' = "metrics"
           ELSE /\ b_pc' = "assert_failed"
                /\ UNCHANGED << t_samples, values, values_den, estimated_expectation >>
    /\ UNCHANGED << T_all, lambdaf, dens, ll_i, ll1, integral, loss, t_end, counter,
                    test_value, moves, b_result, trainVars, intVars, evalVars >>

\* a faulty variant, for comparison: the intervals of the history only
RatioTimesHistory(Tall) == History(Tall)
\* the timestamps whose intervals make the denominator of abs_ratio:
\* `(T_all[1:] - T_all[:-1]).mean()` (line 310)
RatioTimes(Tall) == Tall

\* the metrics and the returned record (lines 307-342).  se and abs are
\* (pred - t)**2 and |pred - t| of the pred and target kept here; abs_ratio is
\* abs / (interval_sum / interval_n + 1e-6).
Metrics ==
    /\ b_pc = "metrics"
    /\ b_result' = [loss |-> loss,
                    pred |-> estimated_expectation,
                    target |-> Last(T_all),
                    interval_sum |-> SeqSum(Intervals(RatioTimes(T_all))),
                    interval_n |-> Len(Intervals(RatioTimes(T_all)))]
    /\ b_pc' = "done"
    /\ UNCHANGED << T_all, lambdaf, dens, ll_i, ll1, integral, loss, t_end, counter,
                    test_value, moves, t_samples, values, values_den,
                    estimated_expectation, trainVars, intVars, evalVars >>

BatchNext == LLStep \/ CriterionReturn \/ PredictStart \/ BracketStep \/ BracketExit
             \/ Sample \/ Metrics

SpecBatch == BatchInit /\ [][BatchNext]_vars

\* ------------------------------------------------------------------------
\* evaluate: sequential, then through the worker pool
\* ------------------------------------------------------------------------

\* batch_evaluate(model, batch): the metrics of test batch b (a fixture:
\* distinct per batch); the same whether or not debug is passed (lines 340-342)
BatchResult(b) == [loss |-> b + 1, se |-> (b + 1) * (b + 1), abs_ratio |-> 2 * b + 1]

Mean(q) == [sum |-> SeqSum(q), n |-> Len(q)]

\* the returned record of line 379; rmse is the square root of its mean
Aggregate(ls, ses, ars) == [loss |-> Mean(ls), rmse |-> Mean(ses), abs_ratio |-> Mean(ars)]

\* a faulty variant, for comparison: the break taken whatever the debug flag
SeqBreaksAlways(debug, k) == k = DebugEvalBreak
\* `if args.debug and i == 100: break` (line 376)
SeqBreaks(debug, k) == debug /\ k = DebugEvalBreak

\* the sets of failing test batches tried
FailSets == {{}, {0}, {1}}

EvalInit ==
    /\ TrainIdle
    /\ IntIdle
    /\ BatchIdle
    /\ e_pc = "seq_loop"
    /\ e_n \in 1..MaxTestBatches
    /\ e_debug \in BOOLEAN
    /\ e_fail \in FailSets
    /\ e_i = 0
    /\ loss_recorder = << >>
    /\ se_recorder = << >>
    /\ abs_ratio_recorder = << >>
    /\ seq_out = [status |-> "none", result |-> NoAggregate]
    /\ pool_table = << >>
    /\ pool_out = [status |-> "none", result |-> NoAggregate]

\* one iteration of the sequential loop (lines 364-377); an exception of
\* batch_evaluate is not caught and leaves evaluate
SeqBatch ==
    /\ e_pc = "seq_loop"
    /\ e_i < e_n
    /\ IF e_i \in e_fail
       THEN /\ seq_out' = [status |-> "raised", result |-> NoAggregate]
            /\ e_pc' = "pool_call"
            /\ UNCHANGED << e_i, loss_recorder, se_recorder, abs_ratio_recorder >>
       ELSE /\ loss_recorder' = Append(loss_recorder, BatchResult(e_i).loss)
            /\ se_recorder' = Append(se_recorder, BatchResult(e_i).se)
            /\ abs_ratio_recorder' = Append(abs_ratio_recorder, BatchResult(e_i).abs_ratio)
            /\ IF SeqBreaks(e_debug, e_i)
               THEN e_pc' = "seq_return" /\ e_i' = e_i
               ELSE e_pc' = "seq_loop" /\ e_i' = e_i + 1
            /\ seq_out' = seq_out
    /\ UNCHANGED << e_n, e_debug, e_fail, pool_table, pool_out,
                    trainVars, intVars, batchVars >>

\* the loader is exhausted
SeqExhausted ==
    /\ e_pc = "seq_loop"
    /\ e_i = e_n
    /\ e_pc' = "seq_return"
    /\ UNCHANGED << e_n, e_debug, e_fail, e_i, loss_recorder, se_recorder,
                    abs_ratio_recorder, seq_out, pool_table, pool_out,
                    trainVars, intVars, batchVars >>

\* the `return` of line 379, sequential mode
SeqReturn ==
    /\ e_pc = "seq_return"
    /\ seq_out' = [status |-> "returned",
                   result |-> Aggregate(loss_recorder, se_recorder, abs_ratio_recorder)]
    /\ e_pc' = "pool_call"
    /\ UNCHANGED << e_n, e_debug, e_fail, e_i, loss_recorder, se_recorder,
                    abs_ratio_recorder, pool_table, pool_out,
                    trainVars, intVars, batchVars >>

\* The orders in which the pool hands back the results of batches 0..n-1:
\* position k (1..n) of the returned list holds the result of batch
\* PoolOrder(kind, n, k).
PoolOrders == {"as_is", "reversed", "rotated"}

PoolOrder(kind, n, k) ==
    CASE kind = "as_is" -> k - 1
      [] kind = "reversed" -> n - k
      [] kind = "rotated" -> k % n

\* the batches of q outside bad, in order
Without(q, bad) == LET Good(b) == b \notin bad IN SelectSeq(q, Good)

\* MultiProcessor.run_queue(batch_evaluate, test_loader, ...): the list of
\* the results of all the batches, in an order of the pool's; a batch whose
\* call raises either ends the whole call or is left out of the list
PoolRun ==
    /\ e_pc = "pool_call"
    /\ \E kind \in PoolOrders, onfail \in {"raise", "drop"} :
        LET order == [k \in 1..e_n |-> PoolOrder(kind, e_n, k)]
            kept == Without(order, e_fail)
        IN  IF onfail = "raise" /\ Len(kept) < e_n
            THEN /\ pool_out' = [status |-> "raised", result |-> NoAggregate]
                 /\ pool_table' = pool_table
                 /\ e_pc' = "done"
            ELSE /\ pool_table' = [k \in 1..Len(kept) |-> BatchResult(kept[k])]
                 /\ pool_out' = pool_out
                 /\ e_pc' = "pool_return"
    /\ UNCHANGED << e_n, e_debug, e_fail, e_i, loss_recorder, se_recorder,
                    abs_ratio_recorder, seq_out, trainVars, intVars, batchVars >>

\* lines 359-362 and the `return` of line 379, pooled mode; the columns of an
\* empty table do not exist (KeyError)
PoolReturn ==
    /\ e_pc = "pool_return"
    /\ pool_out' =
         IF pool_table = << >> THEN [status |-> "raised", result |-> NoAggregate]
         ELSE [status |-> "returned",
               result |-> Aggregate([k \in 1..Len(pool_table) |-> pool_table[k].loss],
                                    [k \in 1..Len(pool_table) |-> pool_table[k].se],
                                    [k \in 1..Len(pool_table) |-> pool_table[k].abs_ratio])]
    /\ e_pc' = "done"
    /\ UNCHANGED << e_n, e_debug, e_fail, e_i, loss_recorder, se_recorder,
                    abs_ratio_recorder, seq_out, pool_table,
                    trainVars, intVars, batchVars >>

EvalNext == SeqBatch \/ SeqExhausted \/ SeqReturn \/ PoolRun \/ PoolReturn

SpecEval == EvalInit /\ [][EvalNext]_vars

\* ------------------------------------------------------------------------
\* Properties of optimize_epoch
\* ------------------------------------------------------------------------

\* the losses of batches 0..n-1 in order, batch k left out
RECURSIVE LossesWithout(_, _)
LossesWithout(n, k) ==
    IF n = 0 THEN << >>
    ELSE IF n - 1 = k THEN LossesWithout(n - 1, k)
    ELSE Append(LossesWithout(n - 1, k), Loss(n - 1))

\* exactly one batch failed, with an out-of-memory failure, in a full epoch
OneOomEpoch ==
    /\ tr_pc = "done"
    /\ ~tr_debug
    /\ Cardinality(failed) = 1
    /\ \A f \in failed : f.kind = "oom"

\* C1: when exactly one batch k fails with an out-of-memory failure, wherever
\* in the batch's computation it is raised, the epoch handles every batch,
\* batch k records no loss, contributes no gradient and does not advance the
\* accumulation counter, and the result is the mean of the num_batches - 1
\* other losses.
C1_SkippedBatchContributesNothing ==
    OneOomEpoch =>
        \A f \in failed :
            /\ Len(last_counter) = num_batches
            /\ recorder = LossesWithout(num_batches, f.batch)
            /\ tr_result = [sum |-> SeqSum(LossesWithout(num_batches, f.batch)),
                            n |-> num_batches - 1]
            /\ f.batch \notin contributed
            /\ f.batch \notin counted

\* The part of C1 the code keeps: the epoch goes on, and the failed batch
\* records no loss, so that the result is the mean of num_batches - 1 losses.
C1_SkippedBatchRecordsNoLoss ==
    OneOomEpoch =>
        \A f \in failed :
            /\ Len(last_counter) = num_batches
            /\ recorder = LossesWithout(num_batches, f.batch)
            /\ tr_result = [sum |-> SeqSum(LossesWithout(num_batches, f.batch)),
                            n |-> num_batches - 1]

\* C1 holds in full when the failure is raised by the loss evaluation.
C1_FailureInCriterion ==
    (OneOomEpoch /\ \A f \in failed : f.at = "criterion")
        => C1_SkippedBatchContributesNothing

\* C2: for any sequence of succeeding and skipped batches, after each handled
\* batch the accumulation counter lies in 0..7, and no more than 8 batches go
\* through the counter between two consecutive updates.
C2_CounterResetEveryEighthBatch ==
    /\ \A k \in 1..Len(last_counter) : last_counter[k] \in 0..(AccumSteps - 1)
    /\ since_update <= AccumSteps - 1
    /\ batch_counter = since_update

\* C2 holds as long as no failure is raised after `batch_counter += 1`.
C2_WithoutLateFailure ==
    (\A f \in failed : f.at = "criterion") => C2_CounterResetEveryEighthBatch

\* ------------------------------------------------------------------------
\* Properties of train_model: the gradient over consecutive epochs
\* ------------------------------------------------------------------------

\* the batches of the current call among S
OfThisEpoch(S) == {b \in S : b.epoch = epoch}

\* every batch whose gradient some optimizer.step() has applied
Applied == UNION {updates[k] : k \in 1..Len(updates)}

\* the failures of the current call
FailedNow == {f \in failed : f.epoch = epoch}

\* the batches applied by the first optimizer.step() of the current call
FirstUpdate == updates[Len(updates) - epoch_updates + 1]

\* C11: when optimize_epoch returns, the gradients of the batches it handled
\* since its last update are still accumulated, neither applied by a step nor
\* cleared (with no failed batch they are the last `handled batches mod 8`
\* ones, fewer than 8); the next call starts with the counter at 0 and with
\* that gradient in place, so the first update of an epoch applies what the
\* calls before it left together with batches of its own epoch, 8 of them
\* unless a failure was raised after the counter had advanced.
C11_LeftoverGradientCarriedOver ==
    /\ grad \cap Applied = {}
    /\ (carried \cup {Batch(epoch, k) : k \in contributed}) \subseteq (grad \cup Applied)
    /\ \A b \in carried : b.epoch < epoch
    /\ epoch_updates = 0 => carried \subseteq grad
    /\ (tr_pc = "loop" /\ i = 0 /\ last_counter = << >>) =>
            /\ batch_counter = 0
            /\ grad = carried
    /\ (tr_pc = "done" /\ FailedNow = {}) =>
            /\ OfThisEpoch(grad) =
                   {Batch(epoch, k) : k \in (Len(last_counter) - batch_counter)..(Len(last_counter) - 1)}
            /\ Cardinality(OfThisEpoch(grad)) = Len(last_counter) % AccumSteps
            /\ batch_counter = Len(last_counter) % AccumSteps
    /\ epoch_updates > 0 =>
            /\ FirstUpdate \ OfThisEpoch(FirstUpdate) = carried
            /\ (\A f \in FailedNow : f.at = "criterion")
                    => Cardinality(OfThisEpoch(FirstUpdate)) = AccumSteps

\* the second epoch, with no failure anywhere, has made its first update with
\* more than 8 batches: the ones the first epoch left and 8 of its own
C11_Witness ==
    /\ tr_pc = "done"
    /\ epoch = 1
    /\ failed = {}
    /\ epoch_updates = 1
    /\ carried # {}
    /\ Cardinality(FirstUpdate) = Cardinality(carried) + AccumSteps
    /\ grad # {}

\* ------------------------------------------------------------------------
\* Properties of AttenIntensity.integral
\* ------------------------------------------------------------------------

\* C5: for a constant intensity c and non-decreasing boundaries from t_start
\* on, the batch call returns the running integral c * (t_end[j] - t_start)
\* at every boundary j, which is the sum of the single calls made boundary by
\* boundary (values are numerators over N).  The calls are those that pass
\* the assertions of lines 173-174 (the history ends at or before t_start);
\* the others raise and return nothing.
C5_BatchIntegralIsCumulative ==
    (in_pc = "done" /\ IsConstant(in_m) /\ NonDecreasing(in_t_end)) =>
        /\ Len(in_batch) = Len(in_t_end)
        /\ \A j \in 1..Len(in_t_end) :
            /\ in_batch[j] = in_N * in_m.c * (in_t_end[j] - in_t_start)
            /\ in_batch[j] = in_single[j]

\* a constant intensity integrated over two boundaries that differ, with
\* several points per boundary
C5_Witness ==
    /\ in_pc = "done"
    /\ IsConstant(in_m)
    /\ Len(in_t_end) = 2
    /\ in_t_start < in_t_end[1]
    /\ in_t_end[1] < in_t_end[2]
    /\ in_N > 1
    /\ in_batch[2] = in_N * in_m.c * (in_t_end[2] - in_t_start)

\* ------------------------------------------------------------------------
\* Properties of predict
\* ------------------------------------------------------------------------

\* predict has left the bracketing loop
AfterLoop == b_pc \in {"sample", "metrics", "done"}

\* predict has returned
Predicted == b_pc \in {"metrics", "done"}

GeqProduct(a, b, x) == a >= (x + b - 1) \div b

\* the estimate (base * last + off * step) / den, step = T_interval / size,
\* is at least last(T):  off * T_interval >= size * last * (den - base)
EstimateAtLeastLast(e, T, te) ==
    GeqProduct(e.off, TInterval(T, te), size * Last(T) * (e.den - e.base))

\* C4: for every strictly increasing history of non-negative timestamps and
\* every non-negative density, the time predict returns is at least last(T).
C4_PredictionNotBeforeLast ==
    Predicted => EstimateAtLeastLast(estimated_expectation, History(T_all), t_end)

\* C4 would hold if the weights summed to one (no 1e-6 in the normaliser and
\* a density that is positive somewhere), or for a history that ends at 0.
C4_HoldsAtTimeZero ==
    (Predicted /\ Last(History(T_all)) = 0)
        => EstimateAtLeastLast(estimated_expectation, History(T_all), t_end)

\* C10: for a strictly increasing history of at least 3 timestamps the
\* horizon stays strictly after last(T) throughout the bracketing search, the
\* 15 candidate times are strictly increasing, lie in (last(T), t_end] and end
\* at t_end, and no assertion of the integral fails, in predict or in
\* log_likelihood.
C10_HorizonAfterHistory ==
    Len(T_all) >= 4 =>
        LET T == History(T_all) IN
        /\ b_pc # "assert_failed"
        /\ b_pc \in {"while", "sample", "metrics", "done"} => t_end > Last(T)
        /\ Predicted =>
            /\ Len(t_samples) = size
            /\ Increasing(t_samples)
            /\ \A k \in 1..size : /\ t_samples[k] > size * Last(T)
                                  /\ t_samples[k] <= size * t_end
            /\ t_samples[size] = size * t_end

\* predict returned after a search that shrank the horizon
C10_Witness ==
    /\ b_pc = "done"
    /\ Len(T_all) >= 4
    /\ moves > 0
    /\ t_end < Last(History(T_all)) + MaxInterval(History(T_all))
    /\ t_samples[1] > size * Last(History(T_all))

\* ------------------------------------------------------------------------
\* Properties of log_likelihood
\* ------------------------------------------------------------------------

\* criterion has just returned log_likelihood's value (negated)
HasLoss == b_pc = "predict"

\* C6: for a sequence of n >= 2 timestamps log_likelihood is the sum of
\* log(lambda(T[:i+1], T[i+1])) minus the sum of integral(T[:i+1], T[i],
\* T[i+1]) over i = 0..n-2: one log term and one integral term per
\* consecutive pair, each given the prefix T[:i+1] only.
C6_LogLikelihoodDecomposition ==
    HasLoss =>
        LET n == Len(T_all) IN
        /\ loss.logs = [k \in 1..(n - 1) |->
                Lambda(lambdaf, SubSeq(T_all, 1, k), << Pt(T_all[k + 1]) >>)[1]]
        /\ loss.integral = SeqSum([k \in 1..(n - 1) |->
                Integral(lambdaf, SubSeq(T_all, 1, k), T_all[k],
                         << T_all[k + 1] >>, DefaultN)[1]])

\* the two-timestamp sequence, with an intensity that reads the history
C6_Witness ==
    /\ HasLoss
    /\ Len(T_all) = 2
    /\ lambdaf.h > 0
    /\ loss.logs = << Lambda(lambdaf, << T_all[1] >>, << Pt(T_all[2]) >>)[1] >>
    /\ loss.integral = Integral(lambdaf, << T_all[1] >>, T_all[1], << T_all[2] >>, DefaultN)[1]

\* ------------------------------------------------------------------------
\* Properties of batch_evaluate
\* ------------------------------------------------------------------------

\* C9 as claimed: the denominator of abs_ratio is the mean of the intervals
\* of the observed history T_all[:-1] only (plus 1e-6).
C9_DenominatorFromHistoryOnly ==
    b_pc = "done" =>
        /\ b_result.interval_sum = SeqSum(Intervals(History(T_all)))
        /\ b_result.interval_n = Len(T_all) - 2

\* C9, amended: abs_ratio is |prediction - T_all[-1]| over the mean of all
\* the intervals of T_all, the one that ends at the held-out target T_all[-1]
\* included, plus 1e-6.
C9_DenominatorFromAllIntervals ==
    b_pc = "done" =>
        /\ b_result.pred = estimated_expectation
        /\ b_result.target = T_all[Len(T_all)]
        /\ b_result.interval_sum = T_all[Len(T_all)] - T_all[1]
        /\ b_result.interval_sum =
               SeqSum([k \in 1..(Len(T_all) - 1) |-> T_all[k + 1] - T_all[k]])
        /\ b_result.interval_n = Len(T_all) - 1

\* a batch whose last interval changes the mean interval
C9_Witness ==
    /\ b_pc = "done"
    /\ b_result.interval_sum * (Len(T_all) - 2)
           # SeqSum(Intervals(History(T_all))) * b_result.interval_n

\* ------------------------------------------------------------------------
\* Properties of evaluate
\* ------------------------------------------------------------------------

\* two means are the same number
SameMean(a, b) == /\ (a.n = 0) = (b.n = 0)
                  /\ a.sum * b.n = b.sum * a.n

SameAggregate(x, y) == /\ SameMean(x.loss, y.loss)
                       /\ SameMean(x.rmse, y.rmse)
                       /\ SameMean(x.abs_ratio, y.abs_ratio)

\* both calls of evaluate have returned
BothReturned == /\ e_pc = "done"
                /\ seq_out.status = "returned"
                /\ pool_out.status = "returned"

C8_FailedBatchIsLeftOut ==
    (e_pc \in {"pool_call", "pool_return", "done"} /\ e_fail # {})
        => /\ seq_out.status = "returned"
           /\ seq_out.result.loss.n = Cardinality({b \in 0..(e_n - 1) : b \notin e_fail})

====
